---------------------------- MODULE Spec2Model ----------------------------
(***************************************************************************)
(* A model of the two command-line translators of the repository:          *)
(*   tradutor_artigos.py  the Document Translator (one call per paragraph) *)
(*   translate_url.py     the URL Article Translator (one chat call)       *)
(* Strings are sequences of one-character strings, so that trimming,       *)
(* splitting and joining are computed, not assumed.                        *)
(***************************************************************************)
EXTENDS Integers, Sequences, FiniteSets, TLC

(***************************************************************************)
(* Python values                                                           *)
(***************************************************************************)
\* Python's None where a string is expected (argparse default, no -o flag).
None == <<"<None>">>

\* bool(x) of an optional string: None and "" are falsy.
Truthy(x) == x # None /\ x # <<>>

\* str.isspace() characters that occur in the model.
Whitespace == {" ", "\t", "\n"}

RECURSIVE LStrip(_)
LStrip(s) ==
    IF s # <<>> /\ Head(s) \in Whitespace THEN LStrip(Tail(s)) ELSE s

RECURSIVE RStrip(_)
RStrip(s) ==
    IF s # <<>> /\ s[Len(s)] \in Whitespace
    THEN RStrip(SubSeq(s, 1, Len(s) - 1))
    ELSE s

\* A mutant of Strip: the text is used untrimmed.
StripNothing(s) == s

\* str.strip()
Strip(s) == RStrip(LStrip(s))

\* "pt-br", the default of --to, and a second target language.
PtBr == <<"p", "t", "-", "b", "r">>
Es == <<"e", "s">>
Languages == {PtBr, Es}

(***************************************************************************)
(* The translation endpoint's answers (tradutor_artigos.py, translate_text)*)
(***************************************************************************)
\* JSON values: [t |-> "list" | "dict" | "str" | "null", v |-> ...].
JList(xs) == [t |-> "list", v |-> xs]
JDict(d) == [t |-> "dict", v |-> d]
JStr(s) == [t |-> "str", v |-> s]
JNull == [t |-> "null", v |-> <<>>]

Ola == <<"O", "l", "a">>
Oi == <<"O", "i">>

\* [ { 'translations': [ { 'text': s, 'to': 'pt' } ] } ]
GoodBody(s) ==
    JList(<<JDict([translations |->
              JList(<<JDict([text |-> JStr(s), to |-> JStr(<<"p", "t">>)])>>)])>>)

\* What the endpoint may answer to one POST.  class is what the answer is
\* (the environment's own description of it); status 0 means that no HTTP
\* response arrived; json says whether the body is a JSON text at all.
\* The first three carry the translations Ola, Oi and "".
Responses == <<
    [class |-> "ok", status |-> 200, json |-> TRUE, body |-> GoodBody(Ola)],
    [class |-> "ok", status |-> 200, json |-> TRUE, body |-> GoodBody(Oi)],
    [class |-> "ok", status |-> 200, json |-> TRUE, body |-> GoodBody(<<>>)],
    [class |-> "timeout", status |-> 0, json |-> FALSE, body |-> JNull],
    [class |-> "http_error", status |-> 404, json |-> FALSE, body |-> JNull],
    [class |-> "http_error", status |-> 500, json |-> TRUE,
     body |-> JDict([error |-> JStr(<<"x">>)])],
    [class |-> "not_json", status |-> 200, json |-> FALSE, body |-> JNull],
    [class |-> "empty_list", status |-> 200, json |-> TRUE, body |-> JList(<<>>)],
    [class |-> "missing_field", status |-> 200, json |-> TRUE,
     body |-> JList(<<JDict(<<>>)>>)],
    [class |-> "empty_list", status |-> 200, json |-> TRUE,
     body |-> JList(<<JDict([translations |-> JList(<<>>)])>>)],
    [class |-> "missing_field", status |-> 200, json |-> TRUE,
     body |-> JList(<<JDict([translations |->
                 JList(<<JDict([to |-> JStr(<<"p", "t">>)])>>)])>>)],
    [class |-> "wrong_shape", status |-> 200, json |-> TRUE,
     body |-> JDict([error |-> JStr(<<"x">>)])],
    [class |-> "wrong_shape", status |-> 200, json |-> TRUE, body |-> JNull],
    [class |-> "wrong_shape", status |-> 200, json |-> TRUE,
     body |-> JList(<<JStr(<<"x">>)>>)]
>>

\* The translated string an answer of class "ok" carries.
Translations == <<Ola, Oi, <<>> >>

\* obj[key] in Python, key an int (isInt) or a str: the value, or the
\* exception raised.
GetItem(obj, key, isInt) ==
    CASE obj.t = "list" ->
           IF ~isInt THEN [exc |-> "TypeError", v |-> JNull]
           ELSE IF key + 1 \in DOMAIN obj.v
                THEN [exc |-> "none", v |-> obj.v[key + 1]]
                ELSE [exc |-> "IndexError", v |-> JNull]
      [] obj.t = "dict" ->
           IF isInt THEN [exc |-> "KeyError", v |-> JNull]
           ELSE IF key \in DOMAIN obj.v
                THEN [exc |-> "none", v |-> obj.v[key]]
                ELSE [exc |-> "KeyError", v |-> JNull]
      [] obj.t = "str" ->
           IF ~isInt THEN [exc |-> "TypeError", v |-> JNull]
           ELSE IF key + 1 \in DOMAIN obj.v
                THEN [exc |-> "none", v |-> JStr(<<obj.v[key + 1]>>)]
                ELSE [exc |-> "IndexError", v |-> JNull]
      [] OTHER -> [exc |-> "TypeError", v |-> JNull]

\* a[key] where a is the result of an earlier subscript: an exception
\* already raised propagates.
Then(a, key, isInt) ==
    IF a.exc # "none" THEN a ELSE GetItem(a.v, key, isInt)

\* data[0]['translations'][0]['text']
ExtractText(data) ==
    Then(Then(Then(GetItem(data, 0, TRUE), "translations", FALSE), 0, TRUE),
         "text", FALSE)

\* The except clause of translate_text that catches the exception, which
\* then logs and re-raises it.
Handler(exc) ==
    CASE exc \in {"Timeout", "HTTPError", "InvalidJSONError"} -> "RequestException"
      [] exc \in {"KeyError", "IndexError"} -> "KeyIndexError"
      [] OTHER -> "none"

\* A mutant of Raise: the handler logs and returns "" instead of re-raising.
RaiseSwallowed(exc) == [exc |-> "none", handler |-> Handler(exc), value |-> <<>>]

\* logger.error(...); raise
Raise(exc) == [exc |-> exc, handler |-> Handler(exc), value |-> <<>>]

\* The try block of translate_text on the answer resp.  jsonIsRequestExc:
\* whether the installed requests raises its own JSONDecodeError (a
\* RequestException, requests >= 2.27) or a plain ValueError on a body that
\* is not JSON.
TryPost(resp, jsonIsRequestExc) ==
    IF resp.status = 0 THEN Raise("Timeout")
    ELSE IF resp.status >= 400 /\ resp.status < 600 THEN Raise("HTTPError")
    ELSE IF ~resp.json
         THEN Raise(IF jsonIsRequestExc THEN "InvalidJSONError" ELSE "ValueError")
    ELSE LET r == ExtractText(resp.body) IN
         IF r.exc # "none" THEN Raise(r.exc)
         ELSE [exc |-> "none", handler |-> "none", value |-> r.v.v]

\* A mutant of Request: the paragraph's text is sent with the source
\* language as the target.
RequestToEn(text, target_language) == [text |-> text, to |-> <<"e", "n">>]

\* body and params of the POST
Request(text, target_language) == [text |-> text, to |-> target_language]


\* translate_text: "" without a call for an empty text, else one POST.
translate_text(text, resp, jsonIsRequestExc) ==
    IF text = <<>>
    THEN [sent |-> FALSE, exc |-> "none", handler |-> "none", value |-> <<>>]
    ELSE LET r == TryPost(resp, jsonIsRequestExc) IN
         [sent |-> TRUE, exc |-> r.exc, handler |-> r.handler, value |-> r.value]

(***************************************************************************)
(* Output path of the Document Translator                                  *)
(***************************************************************************)
\* s.rfind(c), 1-based; 0 when c does not occur.
RFind(s, c) ==
    LET hits == {i \in 1..Len(s) : s[i] = c} IN
    IF hits = {} THEN 0 ELSE CHOOSE i \in hits : \A j \in hits : j <= i

\* The index at which os.path.splitext cuts p (posixpath, sep '/'): the
\* last dot of the last component unless only dots precede it there;
\* Len(p) + 1 when there is no extension.
SplitPoint(p) ==
    LET sepIndex == RFind(p, "/")
        dotIndex == RFind(p, ".")
    IN  IF dotIndex > sepIndex
           /\ \E k \in (sepIndex + 1)..(dotIndex - 1) : p[k] # "."
        THEN dotIndex
        ELSE Len(p) + 1

\* os.path.splitext(p) = (base, ext)
splitext(p) ==
    <<SubSeq(p, 1, SplitPoint(p) - 1), SubSeq(p, SplitPoint(p), Len(p))>>

\* out_path of translate_document
DocOutPath(input_path, target_language, output_path) ==
    IF Truthy(output_path)
    THEN output_path
    ELSE splitext(input_path)[1] \o <<"_">> \o target_language
         \o splitext(input_path)[2]

(***************************************************************************)
(* State                                                                   *)
(***************************************************************************)
VARIABLES
    \* Document Translator: args of main
    key, endpoint, to, input_path, output_path,
    \* the input file: "missing", "corrupt" (not a .docx) or "docx", and
    \* the paragraphs of the document it holds
    fileKind, paragraphs,
    \* position of the run, the document being built, paragraphs done
    docPc, translated_doc, idx,
    \* the requests sent to the endpoint, what the endpoint answered to each
    \* (its class and the translation it carried), the except clauses of
    \* translate_text that logged
    calls, replies, handlers,
    \* whether the input path was touched, the files saved, the exit code
    \* (-1 while the process runs), the exception that ended the run
    opened, saved, exitCode, docError

docVars == <<key, endpoint, to, input_path, output_path, fileKind, paragraphs,
             docPc, translated_doc, idx, calls, replies, handlers,
             opened, saved, exitCode, docError>>

VARIABLES
    \* URL Article Translator: args of main
    url, url_to, url_endpoint, url_key, url_deployment, url_output,
    \* the status the page fetch gave (-1 before the fetch, 0 when no
    \* response arrived) and the text BeautifulSoup's get_text gave
    fetchStatus, page_text,
    \* position of the run, the cleaned text, what the chat-completion
    \* endpoint answered to each invocation, the files written, the lines
    \* printed to standard output, the exit code (-1 while the process
    \* runs), what ended the run
    urlPc, article_text, chatReplies, files, stdout, urlExit, urlError

urlVars == <<url, url_to, url_endpoint, url_key, url_deployment, url_output,
             fetchStatus, page_text, urlPc, article_text, chatReplies, files,
             stdout, urlExit, urlError>>

VARIABLES
    \* Output-name derivation on its own: which tool ("doc" or "url"), its
    \* input path or URL, --to, -o, and the path derived (None before)
    n_tool, n_source, n_to, n_output, n_out_path

nameVars == <<n_tool, n_source, n_to, n_output, n_out_path>>

vars == <<docVars, urlVars, nameVars>>

\* The Document Translator is not running.
IdleDoc ==
    /\ key = None /\ endpoint = None /\ to = PtBr
    /\ input_path = <<>> /\ output_path = None
    /\ fileKind = "missing" /\ paragraphs = <<>>
    /\ docPc = "idle" /\ translated_doc = <<>> /\ idx = 0
    /\ calls = <<>> /\ replies = <<>> /\ handlers = <<>>
    /\ opened = FALSE /\ saved = <<>> /\ exitCode = -1 /\ docError = "none"

\* The URL Article Translator is not running.
IdleUrl ==
    /\ url = <<>> /\ url_to = PtBr /\ url_endpoint = None /\ url_key = None
    /\ url_deployment = None /\ url_output = None
    /\ fetchStatus = -1 /\ page_text = <<>>
    /\ urlPc = "idle" /\ article_text = <<>> /\ chatReplies = <<>>
    /\ files = <<>> /\ stdout = <<>> /\ urlExit = -1 /\ urlError = "none"

\* No output name is being derived.
IdleNames ==
    /\ n_tool = "idle" /\ n_source = <<>> /\ n_to = PtBr
    /\ n_output = None /\ n_out_path = None

(***************************************************************************)
(* Document Translator                                                     *)
(***************************************************************************)
MaxParas == 3

\* para.text of a paragraph: empty, whitespace only, text, padded text.
ParaTexts == {<<>>, <<" ">>, <<"H", "i">>, <<" ", "H", "i", "\n">>}

RECURSIVE SeqsUpTo(_, _)
SeqsUpTo(S, n) ==
    IF n = 0 THEN {<<>>}
    ELSE LET shorter == SeqsUpTo(S, n - 1) IN
         shorter \cup {Append(s, x) : s \in shorter, x \in S}

Documents == SeqsUpTo(ParaTexts, MaxParas)

ReportDocx == <<"r", "e", "p", "o", "r", "t", ".", "d", "o", "c", "x">>
OutDocx == <<"o", ".", "d", "o", "c", "x">>
Secret == <<"k">>
Endpoint == <<"h", "/">>

InitDoc ==
    /\ key \in {None, <<>>, Secret}
    /\ endpoint \in {None, <<>>, Endpoint}
    /\ to \in Languages
    /\ input_path = ReportDocx
    /\ output_path \in {None, OutDocx}
    /\ fileKind \in {"missing", "corrupt", "docx"}
    /\ paragraphs \in Documents
    /\ (fileKind # "docx" => paragraphs = <<>>)
    /\ docPc = "main"
    /\ translated_doc = <<>>
    /\ idx = 0
    /\ calls = <<>>
    /\ replies = <<>>
    /\ handlers = <<>>
    /\ opened = FALSE
    /\ saved = <<>>
    /\ exitCode = -1
    /\ docError = "none"
    /\ IdleUrl
    /\ IdleNames

\* sys.exit(1) of main, after the exception e (or the missing setting).
DocExit1(e) ==
    /\ docPc' = "exit"
    /\ exitCode' = 1
    /\ docError' = e

\* A mutant of ConfigMissing: only the key is checked.
ConfigMissingKeyOnly(k, e) == ~Truthy(k)

\* main: if not args.key ... if not args.endpoint ...
ConfigMissing(k, e) == ~Truthy(k) \/ ~Truthy(e)

\* main up to the call of translate_document.
DocMain ==
    /\ UNCHANGED <<urlVars, nameVars>>
    /\ docPc = "main"
    /\ IF ConfigMissing(key, endpoint)
       THEN DocExit1("ConfigurationError")
       ELSE /\ docPc' = "translate_document"
            /\ UNCHANGED <<exitCode, docError>>
    /\ UNCHANGED <<key, endpoint, to, input_path, output_path, fileKind,
                   paragraphs, translated_doc, idx, calls, replies, handlers,
                   opened, saved>>

\* translate_document: os.path.isfile, Document(input_path), Document().
DocOpen ==
    /\ UNCHANGED <<urlVars, nameVars>>
    /\ docPc = "translate_document"
    /\ opened' = TRUE
    /\ CASE fileKind = "missing" -> DocExit1("FileNotFoundError")
         [] fileKind = "corrupt" -> DocExit1("PackageNotFoundError")
         [] OTHER -> /\ docPc' = "loop"
                     /\ UNCHANGED <<exitCode, docError>>
    /\ translated_doc' = <<>>
    /\ idx' = 0
    /\ UNCHANGED <<key, endpoint, to, input_path, output_path, fileKind,
                   paragraphs, calls, replies, handlers, saved>>

\* A mutant of add_blank: the blank paragraph is skipped.
add_blank_skipped(doc) == doc

\* translated_doc.add_paragraph("")
add_blank(doc) == Append(doc, <<>>)

\* translated_doc.add_paragraph(translated)
add_paragraph(doc, text) == Append(doc, text)

\* One pass of the loop over a paragraph whose trimmed text is empty.
DocLoopBlank ==
    /\ UNCHANGED <<urlVars, nameVars>>
    /\ docPc = "loop"
    /\ idx < Len(paragraphs)
    /\ Strip(paragraphs[idx + 1]) = <<>>
    /\ translated_doc' = add_blank(translated_doc)
    /\ idx' = idx + 1
    /\ UNCHANGED <<key, endpoint, to, input_path, output_path, fileKind,
                   paragraphs, docPc, calls, replies, handlers,
                   opened, saved, exitCode, docError>>

\* One pass of the loop over any other paragraph: translate_text answers
\* with one of Responses; an exception leaves translate_document and main
\* exits with 1.
DocLoopTranslate ==
    /\ UNCHANGED <<urlVars, nameVars>>
    /\ docPc = "loop"
    /\ idx < Len(paragraphs)
    /\ Strip(paragraphs[idx + 1]) # <<>>
    /\ \E r \in DOMAIN Responses, jsonIsRequestExc \in BOOLEAN :
         LET text == Strip(paragraphs[idx + 1])
             out == translate_text(text, Responses[r], jsonIsRequestExc)
         IN  /\ calls' = IF out.sent THEN Append(calls, Request(text, to))
                         ELSE calls
             /\ replies' = IF out.sent
                           THEN Append(replies,
                                  [class |-> Responses[r].class,
                                   text |-> IF r \in DOMAIN Translations
                                            THEN Translations[r] ELSE <<>>])
                           ELSE replies
             /\ handlers' = IF out.handler # "none"
                            THEN Append(handlers, out.handler)
                            ELSE handlers
             /\ IF out.exc = "none"
                THEN /\ translated_doc' = add_paragraph(translated_doc, out.value)
                     /\ idx' = idx + 1
                     /\ UNCHANGED <<docPc, exitCode, docError>>
                ELSE /\ DocExit1(out.exc)
                     /\ UNCHANGED <<translated_doc, idx>>
    /\ UNCHANGED <<key, endpoint, to, input_path, output_path, fileKind,
                   paragraphs, opened, saved>>

\* After the loop: translated_doc.save(out_path), which may fail; main then
\* logs the path and the process ends with 0.
DocSave ==
    /\ UNCHANGED <<urlVars, nameVars>>
    /\ docPc = "loop"
    /\ idx = Len(paragraphs)
    /\ \E ok \in BOOLEAN :
         IF ok
         THEN /\ saved' = Append(saved,
                          [path |-> DocOutPath(input_path, to, output_path),
                           paragraphs |-> translated_doc])
              /\ docPc' = "exit"
              /\ exitCode' = 0
              /\ UNCHANGED docError
         ELSE /\ DocExit1("OSError")
              /\ UNCHANGED saved
    /\ UNCHANGED <<key, endpoint, to, input_path, output_path, fileKind,
                   paragraphs, translated_doc, idx, calls, replies, handlers,
                   opened>>

NextDoc == DocMain \/ DocOpen \/ DocLoopBlank \/ DocLoopTranslate \/ DocSave

SpecDoc == InitDoc /\ [][NextDoc]_vars

(***************************************************************************)
(* URL Article Translator (translate_url.py)                               *)
(***************************************************************************)
MaxTextLen == 4

\* The characters of a page's text: a letter, a space, a line break.
TextAlphabet == {"a", " ", "\n"}

\* What soup.get_text(separator=' ') may give.
PageTexts == SeqsUpTo(TextAlphabet, MaxTextLen)

\* str.splitlines(): the lines of s, without a last empty line.
RECURSIVE splitlines(_)
splitlines(s) ==
    IF s = <<>> THEN <<>>
    ELSE LET breaks == {i \in 1..Len(s) : s[i] = "\n"} IN
         IF breaks = {} THEN <<s>>
         ELSE LET b == CHOOSE i \in breaks : \A j \in breaks : i <= j IN
              <<SubSeq(s, 1, b - 1)>> \o splitlines(SubSeq(s, b + 1, Len(s)))

\* line.split('  '): the pieces of line between its double spaces, found
\* from the left.
RECURSIVE split2(_)
split2(line) ==
    LET hits == {i \in 1..(Len(line) - 1) : line[i] = " " /\ line[i + 1] = " "} IN
    IF hits = {} THEN <<line>>
    ELSE LET h == CHOOSE i \in hits : \A j \in hits : i <= j IN
         <<SubSeq(line, 1, h - 1)>> \o split2(SubSeq(line, h + 2, Len(line)))

\* '\n'.join(parts)
RECURSIVE join(_)
join(parts) ==
    IF parts = <<>> THEN <<>>
    ELSE IF Len(parts) = 1 THEN parts[1]
    ELSE parts[1] \o <<"\n">> \o join(Tail(parts))

\* The stripped phrases of the stripped lines, the empty ones dropped.
RECURSIVE Phrases(_)
Phrases(lines) ==
    IF lines = <<>> THEN <<>>
    ELSE LET ps == split2(Strip(Head(lines)))
             stripped == [k \in 1..Len(ps) |-> Strip(ps[k])]
         IN  SelectSeq(stripped, LAMBDA q : q # <<>>) \o Phrases(Tail(lines))

\* texto_limpo of extract_text_from_url
CleanText(t) == join(Phrases(splitlines(t)))

\* A mutant of FetchFailed: only the error statuses are refused.
FetchFailedErrorsOnly(status) == status >= 400

\* extract_text_from_url: if resp.status_code != 200
FetchFailed(status) == status # 200

\* A mutant of NoText: the check is missing.
NoTextNever(t) == FALSE

\* main: if not text
NoText(t) == t = <<>>

\* A mutant of ArticleConfigMissing: the deployment is not checked.
ArticleConfigMissingDeployment(e, k, d) == ~Truthy(e) \/ ~Truthy(k)

\* translate_article: if not azure_endpoint or not azure_key or not deployment
ArticleConfigMissing(e, k, d) == ~Truthy(e) \/ ~Truthy(k) \/ ~Truthy(d)

\* "https://"
Https == <<"h", "t", "t", "p", "s", ":", "/", "/">>

\* The least index from `from` on at which s has a character of stops;
\* Len(s) + 1 when there is none.
FindFirst(s, from, stops) ==
    LET hits == {i \in from..Len(s) : s[i] \in stops} IN
    IF hits = {} THEN Len(s) + 1
    ELSE CHOOSE i \in hits : \A j \in hits : i <= j

\* urlparse(u) of a URL u = "https://...": its netloc and its path.
urlparse(u) ==
    LET start == Len(Https) + 1
        n == FindFirst(u, start, {"/", "?", "#"})
        q == FindFirst(u, n, {"?", "#"})
    IN  [netloc |-> SubSeq(u, start, n - 1), path |-> SubSeq(u, n, q - 1)]

\* s.replace(a, b) for characters a and b
replace(s, a, b) == [k \in 1..Len(s) |-> IF s[k] = a THEN b ELSE s[k]]

RECURSIVE LStripChar(_, _)
LStripChar(s, c) ==
    IF s # <<>> /\ Head(s) = c THEN LStripChar(Tail(s), c) ELSE s

RECURSIVE RStripChar(_, _)
RStripChar(s, c) ==
    IF s # <<>> /\ s[Len(s)] = c
    THEN RStripChar(SubSeq(s, 1, Len(s) - 1), c)
    ELSE s

Index == <<"i", "n", "d", "e", "x">>
DotMd == <<".", "m", "d">>

\* A mutant of filename_from_url: the port's colon is kept in the host.
filename_from_url_colon(u, lang) ==
    LET path == replace(RStripChar(LStripChar(urlparse(u).path, "/"), "/"),
                        "/", "_")
    IN  urlparse(u).netloc \o <<"_">> \o (IF path = <<>> THEN Index ELSE path)
        \o <<"_">> \o lang \o DotMd

\* filename_from_url
filename_from_url(u, lang) ==
    LET parsed == urlparse(u)
        host == replace(parsed.netloc, ":", "_")
        stripped == replace(RStripChar(LStripChar(parsed.path, "/"), "/"),
                            "/", "_")
        path == IF stripped = <<>> THEN Index ELSE stripped
    IN  host \o <<"_">> \o path \o <<"_">> \o lang \o DotMd

\* out_path of main
UrlOutPath(u, lang, output) ==
    IF Truthy(output) THEN output ELSE filename_from_url(u, lang)

ArticleUrl == Https \o <<"a", ".", "c", "o", "m", "/", "x", "/", "y">>
SiteUrl == Https \o <<"a", ":", "8">>
OutMd == <<"o", ".", "m", "d">>
Deployment == <<"g", "p", "t">>

\* response.content of a successful invocation
Contents == {<<>>, <<"#", " ", "O", "i">>}

InitUrl ==
    /\ url \in {ArticleUrl, SiteUrl}
    /\ url_to \in Languages
    /\ url_endpoint \in {None, <<>>, Endpoint}
    /\ url_key \in {None, Secret}
    /\ url_deployment \in {None, Deployment}
    /\ url_output \in {None, OutMd}
    /\ fetchStatus = -1
    /\ page_text = <<>>
    /\ urlPc = "main"
    /\ article_text = <<>>
    /\ chatReplies = <<>>
    /\ files = <<>>
    /\ stdout = <<>>
    /\ urlExit = -1
    /\ urlError = "none"
    /\ IdleDoc
    /\ IdleNames

\* sys.exit(1) of main, after e.
UrlExit1(e) ==
    /\ urlPc' = "exit"
    /\ urlExit' = 1
    /\ urlError' = e

\* main calls extract_text_from_url: requests.get raises, or gives a status
\* and a page whose text is cleaned.
UrlFetch ==
    /\ UNCHANGED <<docVars, nameVars>>
    /\ urlPc = "main"
    /\ \/ /\ fetchStatus' = 0
          /\ UrlExit1("ConnectionError")
          /\ UNCHANGED <<page_text, article_text>>
       \/ \E status \in {200, 204, 404}, t \in PageTexts :
            /\ fetchStatus' = status
            /\ page_text' = t
            /\ IF FetchFailed(status)
               THEN /\ UrlExit1("FetchStatusError")
                    /\ UNCHANGED article_text
               ELSE /\ article_text' = CleanText(t)
                    /\ urlPc' = "check_text"
                    /\ UNCHANGED <<urlExit, urlError>>
    /\ UNCHANGED <<url, url_to, url_endpoint, url_key, url_deployment,
                   url_output, chatReplies, files, stdout>>

\* main: if not text: sys.exit(1)
UrlCheckText ==
    /\ UNCHANGED <<docVars, nameVars>>
    /\ urlPc = "check_text"
    /\ IF NoText(article_text)
       THEN UrlExit1("NoText")
       ELSE /\ urlPc' = "translate"
            /\ UNCHANGED <<urlExit, urlError>>
    /\ UNCHANGED <<url, url_to, url_endpoint, url_key, url_deployment,
                   url_output, fetchStatus, page_text, article_text,
                   chatReplies, files, stdout>>

\* main calls translate_article: the settings are checked, then
\* client.invoke is called once (max_retries=0); it returns a response or
\* raises, and the exception is logged and raised again.
UrlTranslate ==
    /\ UNCHANGED <<docVars, nameVars>>
    /\ urlPc = "translate"
    /\ IF ArticleConfigMissing(url_endpoint, url_key, url_deployment)
       THEN /\ UrlExit1("MissingSettings")
            /\ UNCHANGED chatReplies
       ELSE \/ \E c \in Contents :
                 /\ chatReplies' = Append(chatReplies,
                                          [class |-> "ok", content |-> c])
                 /\ urlPc' = "write"
                 /\ UNCHANGED <<urlExit, urlError>>
            \/ /\ chatReplies' = Append(chatReplies,
                                        [class |-> "error", content |-> <<>>])
               /\ UrlExit1("InvokeError")
    /\ UNCHANGED <<url, url_to, url_endpoint, url_key, url_deployment,
                   url_output, fetchStatus, page_text, article_text, files,
                   stdout>>

\* translated of main: the content of the response
Translated == chatReplies[Len(chatReplies)].content

\* main: open(out_path, 'w') and f.write(translated); open may fail
\* (no file), and so may the write (the file is left empty).
UrlWrite ==
    /\ UNCHANGED <<docVars, nameVars>>
    /\ urlPc = "write"
    /\ LET out_path == UrlOutPath(url, url_to, url_output) IN
       \/ /\ files' = Append(files, [path |-> out_path, content |-> Translated])
          /\ urlPc' = "print"
          /\ UNCHANGED <<urlExit, urlError>>
       \/ /\ UrlExit1("OSError")
          /\ UNCHANGED files
       \/ /\ files' = Append(files, [path |-> out_path, content |-> <<>>])
          /\ UrlExit1("OSError")
    /\ UNCHANGED <<url, url_to, url_endpoint, url_key, url_deployment,
                   url_output, fetchStatus, page_text, article_text,
                   chatReplies, stdout>>

\* main: print(out_path), and the process ends with 0.
UrlPrint ==
    /\ UNCHANGED <<docVars, nameVars>>
    /\ urlPc = "print"
    /\ stdout' = Append(stdout, UrlOutPath(url, url_to, url_output))
    /\ urlPc' = "exit"
    /\ urlExit' = 0
    /\ UNCHANGED <<url, url_to, url_endpoint, url_key, url_deployment,
                   url_output, fetchStatus, page_text, article_text,
                   chatReplies, files, urlError>>

NextUrl == UrlFetch \/ UrlCheckText \/ UrlTranslate \/ UrlWrite \/ UrlPrint

SpecUrl == InitUrl /\ [][NextUrl]_vars

(***************************************************************************)
(* Output names (both tools), over many inputs                             *)
(***************************************************************************)
MaxPathLen == 4
MaxUrlLen == 4

PathAlphabet == {"r", ".", "/"}
UrlAlphabet == {"a", ":", "/", "?"}

InputPaths == SeqsUpTo(PathAlphabet, MaxPathLen) \cup {ReportDocx}
\* URLs of a host that starts with "a", and the URL of the example.
Urls ==
    {Https \o <<"a">> \o r : r \in SeqsUpTo(UrlAlphabet, MaxUrlLen)}
    \cup {ArticleUrl}

InitNames ==
    /\ n_tool \in {"doc", "url"}
    /\ n_source \in IF n_tool = "doc" THEN InputPaths ELSE Urls
    /\ n_to \in Languages
    /\ n_output \in {None, <<>>, OutMd}
    /\ n_out_path = None
    /\ IdleDoc
    /\ IdleUrl

\* translate_document computes out_path.
NameDocument ==
    /\ n_tool = "doc"
    /\ n_out_path = None
    /\ n_out_path' = DocOutPath(n_source, n_to, n_output)
    /\ UNCHANGED <<n_tool, n_source, n_to, n_output, docVars, urlVars>>

\* main of translate_url.py computes out_path.
NameArticle ==
    /\ n_tool = "url"
    /\ n_out_path = None
    /\ n_out_path' = UrlOutPath(n_source, n_to, n_output)
    /\ UNCHANGED <<n_tool, n_source, n_to, n_output, docVars, urlVars>>

NextNames == NameDocument \/ NameArticle

SpecNames == InitNames /\ [][NextNames]_vars

(***************************************************************************)
(* Properties of the Document Translator                                   *)
(***************************************************************************)
\* A paragraph whose every character is whitespace (the empty one too).
IsBlank(p) == \A k \in 1..Len(p) : p[k] \in Whitespace

\* t is p without its leading and trailing whitespace.
IsTrimOf(t, p) ==
    \E i, j \in 1..Len(p) :
        /\ i <= j
        /\ t = SubSeq(p, i, j)
        /\ p[i] \notin Whitespace
        /\ p[j] \notin Whitespace
        /\ \A k \in 1..Len(p) : (k < i \/ k > j) => p[k] \in Whitespace

\* The number of non-blank paragraphs among the first n of the input.
NonBlankUpTo(n) == Cardinality({i \in 1..n : ~IsBlank(paragraphs[i])})

\* The index of the k-th non-blank paragraph of the input.
NonBlankIndex(k) ==
    CHOOSE i \in 1..Len(paragraphs) :
        ~IsBlank(paragraphs[i]) /\ NonBlankUpTo(i) = k

\* The classes of answers that are transport failures, and of those that
\* arrived but do not hold a translation where it is expected.
TransportFailures == {"timeout", "http_error"}
MalformedResponses == {"not_json", "empty_list", "missing_field", "wrong_shape"}

\* The answer to the last call was a failure.
LastCallFailed ==
    replies # <<>> /\ replies[Len(replies)].class # "ok"

\* C1: a run in which every call succeeds saves a document that has
\* exactly as many paragraphs as the input document.
C1_ParagraphCount ==
    /\ \A f \in 1..Len(saved) : Len(saved[f].paragraphs) = Len(paragraphs)
    /\ (docPc = "exit" /\ exitCode = 0) =>
          /\ Len(saved) = 1
          /\ \A k \in 1..Len(replies) : replies[k].class = "ok"

C1_Witness ==
    /\ Len(saved) = 1
    /\ Len(paragraphs) = 3
    /\ IsBlank(paragraphs[2])
    /\ ~IsBlank(paragraphs[1])
    /\ ~IsBlank(paragraphs[3])

\* C2: a blank input paragraph (whitespace-only ones included) gives the
\* empty paragraph at the same index, in the document being built and in
\* the saved one.
C2_BlankParagraphsKeepPosition ==
    /\ \A i \in 1..Len(translated_doc) :
          IsBlank(paragraphs[i]) => translated_doc[i] = <<>>
    /\ \A f \in 1..Len(saved) : \A i \in 1..Len(paragraphs) :
          IsBlank(paragraphs[i]) =>
              /\ i \in DOMAIN saved[f].paragraphs
              /\ saved[f].paragraphs[i] = <<>>

C2_Witness ==
    /\ Len(saved) = 1
    /\ Len(paragraphs) = 3
    /\ paragraphs[2] = <<" ">>
    /\ saved[1].paragraphs[1] = Ola
    /\ saved[1].paragraphs[3] = Oi

\* C3: the calls are, in document order, one per non-blank paragraph
\* reached, each with the paragraph's trimmed text and the run's target
\* language; blank paragraphs cause none; the output paragraph of a
\* translated paragraph is the string its call returned.
C3_OneCallPerParagraph ==
    /\ Len(calls) = Len(replies)
    /\ Len(calls) = NonBlankUpTo(idx) + (IF LastCallFailed THEN 1 ELSE 0)
    /\ Len(translated_doc) = idx
    /\ \A k \in 1..Len(calls) :
          /\ IsTrimOf(calls[k].text, paragraphs[NonBlankIndex(k)])
          /\ calls[k].to = to
          /\ replies[k].class = "ok" =>
                translated_doc[NonBlankIndex(k)] = replies[k].text
    /\ \A f \in 1..Len(saved) : saved[f].paragraphs = translated_doc

C3_Witness ==
    /\ Len(saved) = 1
    /\ paragraphs = << <<" ", "H", "i", "\n">>, <<" ">>, <<"H", "i">> >>
    /\ to = PtBr
    /\ calls = << [text |-> <<"H", "i">>, to |-> PtBr],
                  [text |-> <<"H", "i">>, to |-> PtBr] >>
    /\ saved[1].paragraphs = <<Oi, <<>>, Ola>>

\* C4: a failed call is the last call of the run: the run has ended with
\* exit code 1 at that paragraph, which was sent once, and nothing was
\* saved.
C4_FailureStopsTheRun ==
    \A k \in 1..Len(replies) :
        replies[k].class # "ok" =>
            /\ k = Len(replies)
            /\ Len(calls) = k
            /\ docPc = "exit"
            /\ exitCode = 1
            /\ saved = <<>>
            /\ idx < Len(paragraphs)
            /\ NonBlankUpTo(idx + 1) = k
            /\ ~IsBlank(paragraphs[idx + 1])

C4_Witness ==
    /\ Len(replies) = 2
    /\ replies[2].class \in MalformedResponses
    /\ Len(translated_doc) = 1
    /\ Len(paragraphs) = 3
    /\ ~IsBlank(paragraphs[3])
    /\ docPc = "exit"

\* C5: in translate_text a malformed answer is logged by the
\* unexpected-response clause (KeyError, IndexError) and a transport
\* failure by the request-error clause, and by no other.
C5_FailureClasses ==
    \A k \in 1..Len(replies) :
        /\ replies[k].class \in MalformedResponses =>
              handlers = <<"KeyIndexError">>
        /\ replies[k].class \in TransportFailures =>
              handlers = <<"RequestException">>

\* What does hold: transport failures are logged by the request-error
\* clause, and the unexpected-response clause logs malformed answers only.
C5_Holds ==
    /\ \A k \in 1..Len(replies) :
          replies[k].class \in TransportFailures =>
              handlers = <<"RequestException">>
    /\ handlers = <<"KeyIndexError">> =>
          LastCallFailed /\ replies[Len(replies)].class \in MalformedResponses

Missing(x) == x = None \/ x = <<>>

\* C6: a page fetch that returns a status other than 200 ends the run with
\* the fetch error and exit code 1: no invocation, no file, no output.
C6_FetchFailure ==
    (fetchStatus > 0 /\ fetchStatus # 200) =>
        /\ urlPc = "exit"
        /\ urlExit = 1
        /\ urlError = "FetchStatusError"
        /\ chatReplies = <<>>
        /\ files = <<>>
        /\ stdout = <<>>

C6_Witness ==
    /\ fetchStatus = 204
    /\ urlPc = "exit"
    /\ page_text = <<"a", " ", "a">>
    /\ ~Missing(url_endpoint) /\ ~Missing(url_key) /\ ~Missing(url_deployment)

\* C7: when the fetch succeeded and the cleaned text is empty (the page's
\* text was all whitespace), the endpoint is never invoked, no file is
\* written and the run, once ended, has exit code 1.
C7_EmptyText ==
    (fetchStatus = 200 /\ (IsBlank(page_text) \/ article_text = <<>>)) =>
        /\ article_text = <<>>
        /\ urlPc \in {"check_text", "exit"}
        /\ urlPc = "exit" => (urlExit = 1 /\ urlError = "NoText")
        /\ chatReplies = <<>>
        /\ files = <<>>
        /\ stdout = <<>>

C7_Witness ==
    /\ fetchStatus = 200
    /\ page_text = <<" ", "\n", " ">>
    /\ urlPc = "exit"
    /\ urlExit = 1
    /\ ~Missing(url_endpoint) /\ ~Missing(url_key) /\ ~Missing(url_deployment)

\* C9: the endpoint is invoked at most once; a run that ended with 0 wrote
\* the response's content to the output file and then printed the file's
\* path; after a failed invocation, or with the endpoint, key or deployment
\* missing, no file is written, nothing is printed and the exit code is 1.
C9_SingleInvocation ==
    /\ Len(chatReplies) <= 1
    /\ (urlPc = "exit" /\ urlExit = 0) =>
          /\ Len(chatReplies) = 1
          /\ chatReplies[1].class = "ok"
          /\ stdout # <<>>
    /\ stdout # <<>> =>
          /\ Len(files) = 1
          /\ files[1].content = chatReplies[1].content
          /\ stdout = <<files[1].path>>
          /\ urlExit = 0
    /\ ((\E k \in 1..Len(chatReplies) : chatReplies[k].class = "error")
        \/ Missing(url_endpoint) \/ Missing(url_key) \/ Missing(url_deployment)) =>
          /\ files = <<>>
          /\ stdout = <<>>
          /\ urlExit # 0
          /\ urlPc = "exit" => urlExit = 1
    /\ (\E k \in 1..Len(chatReplies) : chatReplies[k].class = "error") =>
          (urlPc = "exit" /\ urlExit = 1)

C9_Witness ==
    /\ urlPc = "exit"
    /\ urlExit = 0
    /\ url = ArticleUrl
    /\ url_output = None
    /\ files[1].content = <<"#", " ", "O", "i">>
    /\ stdout = <<files[1].path>>

(***************************************************************************)
(* Properties of the output names                                          *)
(***************************************************************************)
\* The extension of path p starts at k: a dot with no dot or slash after
\* it, and before it, in the same component, a character that is no dot.
ExtensionAt(p, k) ==
    /\ k \in 1..Len(p)
    /\ p[k] = "."
    /\ \A j \in (k + 1)..Len(p) : p[j] \notin {".", "/"}
    /\ \E j \in 1..(k - 1) :
          /\ p[j] \notin {".", "/"}
          /\ \A m \in j..(k - 1) : p[m] # "/"

\* out is p with tag inserted before p's extension (at the end when p has
\* none).
InsertedBeforeExtension(out, p, tag) ==
    \E k \in 1..(Len(p) + 1) :
        /\ ExtensionAt(p, k) \/ (k = Len(p) + 1 /\ \A j \in 1..Len(p) : ~ExtensionAt(p, j))
        /\ out = SubSeq(p, 1, k - 1) \o tag \o SubSeq(p, k, Len(p))

\* The URL u = "https://..." has its host at n0..(n - 1) and its path at
\* n..(q - 1): the host ends at the first "/", "?" or "#", the path at the
\* first "?" or "#".
HostAndPathAt(u, n, q) ==
    /\ n <= q
    /\ \A i \in (Len(Https) + 1)..(n - 1) : u[i] \notin {"/", "?", "#"}
    /\ n = Len(u) + 1 \/ u[n] \in {"/", "?", "#"}
    /\ \A i \in n..(q - 1) : u[i] \notin {"?", "#"}
    /\ q = Len(u) + 1 \/ u[q] \in {"?", "#"}

\* t is p without its leading and trailing slashes.
IsSlashTrimOf(t, p) ==
    \/ t = <<>> /\ \A k \in 1..Len(p) : p[k] = "/"
    \/ \E i, j \in 1..Len(p) :
          /\ i <= j
          /\ t = SubSeq(p, i, j)
          /\ p[i] # "/"
          /\ p[j] # "/"
          /\ \A k \in 1..Len(p) : (k < i \/ k > j) => p[k] = "/"

\* s with every character a written as "_".
Underscored(s, a) == [k \in 1..Len(s) |-> IF s[k] = a THEN "_" ELSE s[k]]

\* The parts of a string.
Parts(u) == {SubSeq(u, i, j) : i \in 1..(Len(u) + 1), j \in 0..Len(u)}

\* The pairs <<host, t>> of the URL u: its host, and its path without
\* the leading and trailing slashes.
HostAndTrimmedPath(u) ==
    LET range == (Len(Https) + 1)..(Len(u) + 1) IN
    UNION {{<<SubSeq(u, Len(Https) + 1, nq[1] - 1), t>> :
               t \in {x \in Parts(SubSeq(u, nq[1], nq[2] - 1)) :
                         IsSlashTrimOf(x, SubSeq(u, nq[1], nq[2] - 1))}} :
           nq \in {c \in range \X range : HostAndPathAt(u, c[1], c[2])}}

\* The names the two examples of the claim give.
ReportPtBrDocx ==
    <<"r", "e", "p", "o", "r", "t", "_", "p", "t", "-", "b", "r",
      ".", "d", "o", "c", "x">>
ArticlePtBrMd ==
    <<"a", ".", "c", "o", "m", "_", "x", "_", "y", "_", "p", "t", "-", "b", "r",
      ".", "m", "d">>

\* The parts of C10 that concern an explicit output, the Document
\* Translator and the two examples.
C10_Common ==
    n_out_path # None =>
        /\ Truthy(n_output) => n_out_path = n_output
        /\ (n_tool = "doc" /\ ~Truthy(n_output)) =>
              InsertedBeforeExtension(n_out_path, n_source, <<"_">> \o n_to)
        /\ (n_tool = "doc" /\ ~Truthy(n_output) /\ n_source = ReportDocx
            /\ n_to = PtBr) => n_out_path = ReportPtBrDocx
        /\ (n_tool = "url" /\ ~Truthy(n_output) /\ n_source = ArticleUrl
            /\ n_to = PtBr) => n_out_path = ArticlePtBrMd

\* C10 as claimed: the URL Translator's name is the host, "_", the path
\* with its slashes written as underscores, "_", the language and ".md".
C10_AsClaimed ==
    /\ C10_Common
    /\ (n_out_path # None /\ n_tool = "url" /\ ~Truthy(n_output)) =>
          \E ht \in HostAndTrimmedPath(n_source) :
              n_out_path = ht[1] \o <<"_">> \o Underscored(ht[2], "/")
                           \o <<"_">> \o n_to \o DotMd

\* C10 as amended: in the host every ":" is written as "_", and a path
\* that is empty once its leading and trailing slashes are removed is
\* written as "index".
C10_OutputNames ==
    /\ C10_Common
    /\ (n_out_path # None /\ n_tool = "url" /\ ~Truthy(n_output)) =>
          \E ht \in HostAndTrimmedPath(n_source) :
              n_out_path =
                  Underscored(ht[1], ":") \o <<"_">>
                  \o (IF ht[2] = <<>> THEN Index ELSE Underscored(ht[2], "/"))
                  \o <<"_">> \o n_to \o DotMd

C10_Witness ==
    /\ n_tool = "url"
    /\ n_source = Https \o <<"a", ":", "a", "/", "?">>
    /\ n_to = PtBr
    /\ n_output = None
    /\ n_out_path = <<"a", "_", "a", "_", "i", "n", "d", "e", "x", "_",
                      "p", "t", "-", "b", "r", ".", "m", "d">>

=============================================================================
